---- MODULE Spec2Model ----
(***************************************************************************)
(* Model of allocine_dataset_scraper (src/src/allocine_dataset_scraper):   *)
(* the AllocineScraper page walk, the per-field extractors, the DataFrame  *)
(* record store and its CSV snapshot.                                      *)
(*                                                                         *)
(* Texts that the code takes apart (links, hrefs, rating texts) are tuples *)
(* of one-character strings; texts it only copies are TLA+ strings.        *)
(***************************************************************************)
EXTENDS Integers, Sequences, FiniteSets, TLC

(***************************************************************************)
(* Bounds of the model.                                                    *)
(***************************************************************************)
\* largest number_of_pages a configuration of the model asks for
MaxPages == 2
\* largest from_page a configuration of the model asks for
MaxFromPage == 2
\* most links one listing page of the model carries
MaxLinks == 2
\* largest number of hours in the duration text of a detail page
MaxHours == 26
\* most rating blocks on a detail page given to the extractors on their own
MaxBlocks == 2
\* most scrapers constructed one after the other in one process
MaxInstances == 2

(***************************************************************************)
(* Values of DataFrame cells and of CSV cells.                             *)
(* k is the Python type; n the number (a float is held in tenths);         *)
(* s the text.                                                             *)
(***************************************************************************)
NoneV == [k |-> "None", n |-> 0, s |-> ""]
NaNV == [k |-> "NaN", n |-> 0, s |-> ""]
IntV(n) == [k |-> "int", n |-> n, s |-> ""]
FloatV(tenths) == [k |-> "float", n |-> tenths, s |-> ""]
StrV(s) == [k |-> "str", n |-> 0, s |-> s]

IsNull(v) == v.k \in {"None", "NaN"}

\* the outcome of a call: exc = "" when it returns val, else the exception raised
Ret(v) == [exc |-> "", val |-> v]
Raise(e) == [exc |-> e, val |-> NoneV]

(***************************************************************************)
(* Text helpers (re.sub, str.split, int, float, str.join).                 *)
(***************************************************************************)
Digits == {"0", "1", "2", "3", "4", "5", "6", "7", "8", "9"}

DigitVal(c) ==
    CASE c = "0" -> 0 [] c = "1" -> 1 [] c = "2" -> 2 [] c = "3" -> 3
      [] c = "4" -> 4 [] c = "5" -> 5 [] c = "6" -> 6 [] c = "7" -> 7
      [] c = "8" -> 8 [] c = "9" -> 9

IsDigit(c) == c \in Digits

\* re.sub(r"\D", "", text)
StripNonDigits(text) == SelectSeq(text, IsDigit)

RECURSIVE DigitsToInt(_)
DigitsToInt(ds) ==
    IF ds = <<>> THEN 0
    ELSE 10 * DigitsToInt(SubSeq(ds, 1, Len(ds) - 1)) + DigitVal(ds[Len(ds)])

AllDigits(text) == \A j \in 1..Len(text) : text[j] \in Digits

\* int(text): ValueError unless text is a non-empty run of digits
ParseInt(text) ==
    IF text # <<>> /\ AllDigits(text) THEN Ret(IntV(DigitsToInt(text)))
    ELSE Raise("ValueError")

\* positions of sep in text
Positions(text, sep) == {j \in 1..Len(text) : text[j] = sep}

SetMax(S) == CHOOSE x \in S : \A y \in S : y <= x
SetMin(S) == CHOOSE x \in S : \A y \in S : x <= y

\* text.split(sep)[-1]
LastPiece(text, sep) ==
    IF Positions(text, sep) = {} THEN text
    ELSE SubSeq(text, SetMax(Positions(text, sep)) + 1, Len(text))

\* text.split(sep)[0]
FirstPiece(text, sep) ==
    IF Positions(text, sep) = {} THEN text
    ELSE SubSeq(text, 1, SetMin(Positions(text, sep)) - 1)

\* re.sub(",", ".", text)
CommaToPeriod(text) == [j \in 1..Len(text) |-> IF text[j] = "," THEN "." ELSE text[j]]

\* float(text) for decimal texts of at most one fractional digit, in tenths;
\* ValueError for any other text
ParseFloat(text) ==
    LET whole == FirstPiece(text, ".")
        frac == IF Positions(text, ".") = {} THEN <<>> ELSE LastPiece(text, ".")
    IN  IF /\ Cardinality(Positions(text, ".")) <= 1
           /\ AllDigits(whole) /\ AllDigits(frac)
           /\ Len(whole) + Len(frac) > 0
           /\ Len(frac) <= 1
        THEN Ret(FloatV(10 * DigitsToInt(whole) + DigitsToInt(frac)))
        ELSE Raise("ValueError")

\* ", ".join(names)
RECURSIVE Join(_)
Join(names) ==
    IF names = <<>> THEN ""
    ELSE IF Len(names) = 1 THEN names[1]
    ELSE names[1] \o ", " \o Join(Tail(names))

(***************************************************************************)
(* A detail page, as the markup facts the extractors look at.              *)
(*   main       <main id="content-layout"> is there (parser_movie # None)  *)
(*   home       the <span class="home"> and its href                       *)
(*   title      <div class="titlebar-title"> and its trimmed text          *)
(*   date       <span class="date"> and its text                           *)
(*   spacer     <span class="spacer"> and what follows it                  *)
(*   genres, directors, actors   the labelled container and its entries    *)
(*   nationality             the texts of all "nationality" elements       *)
(*   ratings    the <div class="rating-item"> blocks, in document order    *)
(*   synopsis   the synopsis section and its content-txt container         *)
(***************************************************************************)
\* an element that is missing: one whose text the code copies, one it takes apart
NoElement == [present |-> FALSE, text |-> ""]
Absent == [present |-> FALSE, text |-> <<>>]
Text(t) == [present |-> TRUE, text |-> t]
NoList == [present |-> FALSE, names |-> <<>>]
List(ns) == [present |-> TRUE, names |-> ns]

\* re.sub(r"\D", "", href) and int() of it
get_movie_id(movie) ==
    IF ~movie.main THEN Raise("AttributeError")
    ELSE IF movie.home.kind = "none" THEN Raise("TypeError")
    ELSE IF movie.home.kind = "nohref" THEN Raise("KeyError")
    ELSE ParseInt(StripNonDigits(movie.home.href))

get_movie_title(movie) ==
    IF ~movie.main THEN Raise("AttributeError")
    ELSE IF ~movie.title.present THEN Raise("AttributeError")
    ELSE Ret(StrV(movie.title.text))

\* dateparser.parse(text, date_formats=["%d %B %Y"]): None for a text it cannot read
ParseDate(text) ==
    CASE text = "23 decembre 2020" -> StrV("2020-12-23 00:00:00")
      [] text = "1 janvier 1999" -> StrV("1999-01-01 00:00:00")
      [] OTHER -> NoneV

get_movie_release_date(movie) ==
    IF ~movie.main THEN Raise("AttributeError")
    ELSE IF ~movie.date.present THEN Ret(NoneV)
    ELSE Ret(ParseDate(movie.date.text))

\* str.strip() on a token text: leading and trailing blanks go
RECURSIVE StripLeft(_)
StripLeft(text) ==
    IF text # <<>> /\ text[1] = " " THEN StripLeft(Tail(text)) ELSE text

RECURSIVE StripRight(_)
StripRight(text) ==
    IF text # <<>> /\ text[Len(text)] = " "
    THEN StripRight(SubSeq(text, 1, Len(text) - 1))
    ELSE text

Strip(text) == StripRight(StripLeft(text))

\* pd.to_timedelta(text) for "<H>h", "<M>min" and "<H>h <M>min": the total
\* number of minutes, or -1 where pandas raises ValueError
TimedeltaMinutes(text) ==
    LET hpos == Positions(text, "h")
        hours == IF hpos = {} THEN <<>> ELSE FirstPiece(text, "h")
        rest == Strip(IF hpos = {} THEN text ELSE LastPiece(text, "h"))
        mins == IF rest = <<>> THEN <<>> ELSE SubSeq(rest, 1, Len(rest) - 1)
    IN  IF /\ Cardinality(hpos) <= 1
           /\ (hpos # {} => hours # <<>> /\ AllDigits(hours))
           /\ (rest # <<>> => rest[Len(rest)] = "min" /\ mins # <<>> /\ AllDigits(mins))
           /\ (hpos # {} \/ rest # <<>>)
        THEN 60 * DigitsToInt(hours) + DigitsToInt(mins)
        ELSE -1

\* Timedelta.components: hours is the hour of the day, minutes the minute of the hour
ComponentsHours(total) == (total \div 60) % 24
ComponentsMinutes(total) == total % 60

\* mutant: a blank duration text gives None
get_movie_duration_blank_is_none(movie) ==
    IF ~movie.main THEN Raise("AttributeError")
    ELSE IF movie.spacer.kind = "nospacer" THEN Raise("AttributeError")
    ELSE IF movie.spacer.kind = "nosibling" THEN Raise("AttributeError")
    ELSE IF movie.spacer.kind = "tag" THEN Raise("TypeError")
    ELSE LET movie_duration == Strip(movie.spacer.text)
             total == TimedeltaMinutes(movie_duration)
         IN  IF movie_duration = <<>> THEN Ret(NoneV)
             ELSE IF total < 0 THEN Raise("ValueError")
             ELSE Ret(IntV(ComponentsHours(total) * 60 + ComponentsMinutes(total)))

get_movie_duration(movie) ==
    IF ~movie.main THEN Raise("AttributeError")
    ELSE IF movie.spacer.kind = "nospacer" THEN Raise("AttributeError")
    ELSE IF movie.spacer.kind = "nosibling" THEN Raise("AttributeError")
    ELSE IF movie.spacer.kind = "tag" THEN Raise("TypeError")
    ELSE LET movie_duration == Strip(movie.spacer.text)
             total == TimedeltaMinutes(movie_duration)
         IN  IF movie_duration = <<>> THEN Ret(StrV(""))
             ELSE IF total < 0 THEN Raise("ValueError")
             ELSE Ret(IntV(ComponentsHours(total) * 60 + ComponentsMinutes(total)))

\* an entry whose text holds a line break is markup whitespace
HasNewline(name) == name = "\n"
NoNewline(name) == ~HasNewline(name)

get_movie_genres(movie) ==
    IF ~movie.main THEN Raise("AttributeError")
    ELSE IF ~movie.genres.present THEN Ret(NoneV)
    ELSE Ret(StrV(Join(SelectSeq(movie.genres.names, NoNewline))))

get_movie_directors(movie) ==
    IF ~movie.main THEN Raise("AttributeError")
    ELSE IF ~movie.directors.present THEN Ret(NoneV)
    ELSE Ret(StrV(Join(movie.directors.names)))

\* [...][1:] : the first entry is dropped
get_movie_actors(movie) ==
    IF ~movie.main THEN Raise("AttributeError")
    ELSE IF ~movie.actors.present THEN Ret(NoneV)
    ELSE Ret(StrV(Join(IF movie.actors.names = <<>> THEN <<>>
                       ELSE Tail(movie.actors.names))))

get_movie_nationality(movie) ==
    IF ~movie.main THEN Raise("AttributeError")
    ELSE Ret(StrV(Join(movie.nationality)))

\* mutant: the last rating block whose text holds the discriminator
LastBlock(movie_ratings, discriminator) ==
    LET hits == {j \in 1..Len(movie_ratings) : discriminator \in movie_ratings[j].labels}
    IN  IF hits = {} THEN 0 ELSE SetMax(hits)

\* the first rating block, in document order, whose text holds the discriminator
FirstBlock(movie_ratings, discriminator) ==
    LET hits == {j \in 1..Len(movie_ratings) : discriminator \in movie_ratings[j].labels}
    IN  IF hits = {} THEN 0 ELSE SetMin(hits)

RatingNote(movie, discriminator) ==
    LET j == FirstBlock(movie.ratings, discriminator)
    IN  IF ~movie.main THEN Raise("AttributeError")
        ELSE IF j = 0 THEN Ret(NoneV)
        ELSE IF ~movie.ratings[j].note.present THEN Raise("AttributeError")
        ELSE ParseFloat(CommaToPeriod(movie.ratings[j].note.text))

get_movie_press_rating(movie) == RatingNote(movie, "Presse")

get_movie_spec_rating(movie) == RatingNote(movie, "Spectateurs")

get_movie_number_of_press_rating(movie) ==
    LET j == FirstBlock(movie.ratings, "Presse")
    IN  IF ~movie.main THEN Raise("AttributeError")
        ELSE IF j = 0 THEN Ret(NoneV)
        ELSE IF ~movie.ratings[j].review.present THEN Raise("AttributeError")
        ELSE ParseFloat(StripNonDigits(movie.ratings[j].review.text))

get_movie_number_of_spec_rating(movie) ==
    LET j == FirstBlock(movie.ratings, "Spectateurs")
    IN  IF ~movie.main THEN Raise("AttributeError")
        ELSE IF j = 0 THEN Ret(NoneV)
        ELSE IF ~movie.ratings[j].review.present THEN Raise("AttributeError")
        ELSE ParseFloat(StripNonDigits(FirstPiece(movie.ratings[j].review.text, ",")))

\* the texts are held trimmed and in NFKC form
get_movie_summary(movie) ==
    IF ~movie.main THEN Raise("AttributeError")
    ELSE IF movie.synopsis.kind = "nosection" THEN Raise("AttributeError")
    ELSE IF movie.synopsis.kind = "nocontent" THEN Ret(NoneV)
    ELSE Ret(StrV(movie.synopsis.text))

\* the fixed schema, in order
movie_infos ==
    << "id", "title", "release_date", "duration", "genres", "directors", "actors",
       "nationality", "press_rating", "number_of_press_rating", "spec_rating",
       "number_of_spec_rating", "summary" >>

\* getattr(self, "_get_movie_" + info)(parser_movie)
Extract(info, movie) ==
    CASE info = "id" -> get_movie_id(movie)
      [] info = "title" -> get_movie_title(movie)
      [] info = "release_date" -> get_movie_release_date(movie)
      [] info = "duration" -> get_movie_duration(movie)
      [] info = "genres" -> get_movie_genres(movie)
      [] info = "directors" -> get_movie_directors(movie)
      [] info = "actors" -> get_movie_actors(movie)
      [] info = "nationality" -> get_movie_nationality(movie)
      [] info = "press_rating" -> get_movie_press_rating(movie)
      [] info = "number_of_press_rating" -> get_movie_number_of_press_rating(movie)
      [] info = "spec_rating" -> get_movie_spec_rating(movie)
      [] info = "number_of_spec_rating" -> get_movie_number_of_spec_rating(movie)
      [] info = "summary" -> get_movie_summary(movie)

(***************************************************************************)
(* The record store: a pandas DataFrame, as its columns in order and its   *)
(* rows in order, each row a function from the column names to values.     *)
(***************************************************************************)
Range(seq) == {seq[j] : j \in 1..Len(seq)}

\* pd.DataFrame(columns=movie_infos), the class-level table
EmptyDataFrame == [columns |-> movie_infos, rows |-> <<>>]

\* DataFrame.empty: an axis of length 0
IsEmpty(frame) == Len(frame.rows) = 0 \/ Len(frame.columns) = 0

\* pd.DataFrame(movie_datas): one row, the columns in the order of the dict
OneRowFrame(movie_datas) == [columns |-> movie_infos, rows |-> <<movie_datas>>]

\* a row widened to the given columns, NaN where it has no value
Widen(row, columns) ==
    [c \in Range(columns) |-> IF c \in DOMAIN row THEN row[c] ELSE NaNV]

WidenAll(rows, columns) == [j \in 1..Len(rows) |-> Widen(rows[j], columns)]

\* pd.concat([a, b], ignore_index=True): the columns of a, then the new ones of b
Concat(a, b) ==
    LET extra == SelectSeq(b.columns, LAMBDA c : c \notin Range(a.columns))
        columns == a.columns \o extra
    IN  [columns |-> columns,
         rows |-> WidenAll(a.rows, columns) \o WidenAll(b.rows, columns)]

\* DataFrame.drop_duplicates(subset=["id"]): of the rows with one id value the
\* first is kept; two missing ids of the same kind count as one value
\* mutant: the call of drop_duplicates is left out
DropDuplicatesLeftOut(frame) == frame

\* mutant: drop_duplicates(subset=["id"], keep="last")
DropDuplicatesKeepLast(frame) ==
    LET keep == {j \in 1..Len(frame.rows) :
                    \A h \in (j + 1)..Len(frame.rows) :
                        frame.rows[h]["id"] # frame.rows[j]["id"]}
        Sel[j \in 0..Len(frame.rows)] ==
            IF j = 0 THEN <<>>
            ELSE IF j \in keep THEN Append(Sel[j - 1], frame.rows[j])
            ELSE Sel[j - 1]
    IN  [columns |-> frame.columns, rows |-> Sel[Len(frame.rows)]]

DropDuplicates(frame) ==
    LET keep == {j \in 1..Len(frame.rows) :
                    \A h \in 1..(j - 1) : frame.rows[h]["id"] # frame.rows[j]["id"]}
        Sel[j \in 0..Len(frame.rows)] ==
            IF j = 0 THEN <<>>
            ELSE IF j \in keep THEN Append(Sel[j - 1], frame.rows[j])
            ELSE Sel[j - 1]
    IN  [columns |-> frame.columns, rows |-> Sel[Len(frame.rows)]]

\* lines 238-242 of _parse_movie: the table after one more record
AddRecord(frame, movie_datas) ==
    DropDuplicates(IF ~IsEmpty(frame) THEN Concat(frame, OneRowFrame(movie_datas))
                   ELSE OneRowFrame(movie_datas))

(***************************************************************************)
(* The CSV snapshot.  A file is absent, unreadable as CSV, or a CSV        *)
(* with a header and rows of cells.  A cell is empty or holds the text of  *)
(* a number or of a string.                                                *)
(***************************************************************************)
EmptyCell == [k |-> "empty", n |-> 0, s |-> ""]

\* to_csv: None, NaN and the empty string all leave the cell empty
ToCell(v) ==
    IF IsNull(v) \/ v = StrV("") THEN EmptyCell ELSE [k |-> v.k, n |-> v.n, s |-> v.s]

\* read_csv: an empty cell is NaN
FromCell(c) ==
    IF c.k = "empty" THEN NaNV ELSE [k |-> c.k, n |-> c.n, s |-> c.s]

NoFile == [kind |-> "absent", columns |-> <<>>, rows |-> <<>>]
CorruptFile == [kind |-> "corrupt", columns |-> <<>>, rows |-> <<>>]
CsvFile(columns, rows) == [kind |-> "csv", columns |-> columns, rows |-> rows]

\* DataFrame.to_csv(path, index=False)
ToCsv(frame) ==
    CsvFile(frame.columns,
            [j \in 1..Len(frame.rows) |->
                [c \in Range(frame.columns) |-> ToCell(frame.rows[j][c])]])

\* pd.read_csv(path) of a CSV file
ReadCsv(file) ==
    [columns |-> file.columns,
     rows |-> [j \in 1..Len(file.rows) |->
                  [c \in Range(file.columns) |-> FromCell(file.rows[j][c])]]]

\* mutant: dropna() is left out, a missing id counts as 0
IdListWithMissing(frame) == {frame.rows[j]["id"].n : j \in 1..Len(frame.rows)}

\* df["id"].dropna().astype(int).tolist(), as the set of its elements
IdList(frame) ==
    LET ids == [j \in 1..Len(frame.rows) |-> frame.rows[j]["id"]]
        kept == SelectSeq(ids, LAMBDA v : ~IsNull(v))
    IN  {kept[j].n : j \in 1..Len(kept)}

\* mutant: an unreadable file loads as an empty table
LoadErrorMissingOnly(file) ==
    IF file.kind = "absent" THEN "FileNotFoundError" ELSE ""

\* what lines 105-106 of __init__ raise, "" when they load the snapshot
LoadError(file) ==
    IF file.kind = "absent" THEN "FileNotFoundError"
    ELSE IF file.kind = "corrupt" THEN "ParserError"
    ELSE IF "id" \notin Range(file.columns) THEN "KeyError"
    ELSE IF \E j \in 1..Len(file.rows) : file.rows[j]["id"].k = "str"
         THEN "ValueError"
    ELSE ""

(***************************************************************************)
(* Listing pages: the hrefs of the <h2 class="meta-title"> anchors, in     *)
(* document order.  "h" stands for the extension html.                     *)
(***************************************************************************)
\* int(url.split("=")[-1].split(".")[0])
UrlId(url) == ParseInt(FirstPiece(LastPiece(url, "="), "."))

\* mutant: the id is taken after the first "=", url.split("=")[1], not the last
parse_page_first_equals(urls, append_result, exclude_ids) ==
    IF append_result /\ exclude_ids # {}
    THEN Ret(SelectSeq(urls, LAMBDA url :
                 DigitsToInt(FirstPiece(FirstPiece(
                     SubSeq(url, SetMin(Positions(url, "=") \cup {Len(url)}) + 1, Len(url)),
                     "="), ".")) \notin exclude_ids))
    ELSE Ret(urls)

\* mutant: the filter is left out
parse_page_keeps_all(urls, append_result, exclude_ids) == Ret(urls)

\* mutant: the filter runs whatever append_result is
parse_page_any_mode(urls, append_result, exclude_ids) ==
    IF exclude_ids # {}
    THEN IF \E j \in 1..Len(urls) : UrlId(urls[j]).exc # ""
         THEN Raise("ValueError")
         ELSE Ret(SelectSeq(urls, LAMBDA url : UrlId(url).val.n \notin exclude_ids))
    ELSE Ret(urls)

\* lines 202-211 of _parse_page: the links kept, or the exception of int()
parse_page(urls, append_result, exclude_ids) ==
    IF append_result /\ exclude_ids # {}
    THEN IF \E j \in 1..Len(urls) : UrlId(urls[j]).exc # ""
         THEN Raise("ValueError")
         ELSE Ret(SelectSeq(urls, LAMBDA url : UrlId(url).val.n \notin exclude_ids))
    ELSE Ret(urls)

\* /film/fichefilm_gen_cfilm=1.html
Link1 == <<"c", "=", "1", ".", "h">>
\* a link with two "=": its id is 12
Link12 == <<"a", "=", "1", "=", "1", "2", ".", "h">>
\* a link without "=<digits>.html"
LinkNoId == <<"c", "1">>

Links == {Link1, Link12}

RECURSIVE SeqsUpTo(_, _)
SeqsUpTo(S, n) ==
    IF n = 0 THEN {<<>>}
    ELSE LET shorter == SeqsUpTo(S, n - 1)
         IN  shorter \cup {Append(q, x) : q \in {r \in shorter : Len(r) = n - 1}, x \in S}

\* the listing pages the transport of the model serves: up to MaxLinks
\* well-formed links, or the one malformed link
ListingPages == SeqsUpTo(Links, MaxLinks) \cup {<<LinkNoId>>}

(***************************************************************************)
(* Detail pages of the model: a complete page for each of two movies and   *)
(* pages that each lack or garble one piece of markup.                     *)
(***************************************************************************)
Href(text) == [kind |-> "href", href |-> text]
Block(labels, note, review) == [labels |-> labels, note |-> note, review |-> review]

Movie1 ==
    [main |-> TRUE,
     home |-> Href(<<"c", "=", "1", ".", "h">>),
     title |-> Text("Minuit dans l'univers"),
     date |-> Text("23 decembre 2020"),
     spacer |-> [kind |-> "text", text |-> <<" ", "2", "h", " ", "2", "min", " ">>],
     genres |-> List(<<"Drame", "\n", "Science Fiction">>),
     directors |-> List(<<"George Clooney">>),
     actors |-> List(<<"Avec", "George Clooney", "Felicity Jones">>),
     nationality |-> <<"U.S.A.">>,
     ratings |-> << Block({"Presse"}, Text(<<"2", ",", "4">>), Text(<<"1", "7", " ", "c">>)),
                    Block({"Spectateurs"}, Text(<<"3", ",", "0">>),
                          Text(<<"2", "5", " ", "n", ",", " ", "3", " ", "c">>)) >>,
     synopsis |-> [kind |-> "text", text |-> "Dans ce film post-apocalyptique"]]

Movie12 ==
    [Movie1 EXCEPT !.home = Href(<<"c", "=", "1", "2", ".", "h">>),
                   !.title = Text("Soul"),
                   !.date = NoElement,
                   !.ratings = <<>>]

\* no <main id="content-layout">
NoMain == [Movie1 EXCEPT !.main = FALSE]
\* no <span class="home">
NoHome == [Movie1 EXCEPT !.home = [kind |-> "none", href |-> <<>>]]
\* no <div class="titlebar-title">
NoTitle == [Movie1 EXCEPT !.title = NoElement]
\* the press block has no <span class="stareval-note">
NoPressNote == [Movie1 EXCEPT !.ratings[1].note = Absent]
\* the press block shows "--" for a movie without press rating
DashPressNote == [Movie1 EXCEPT !.ratings[1].note = Text(<<"-", "-">>)]
\* nothing but blanks after <span class="spacer">
BlankDuration == [Movie1 EXCEPT !.spacer = [kind |-> "text", text |-> <<" ">>]]

\* the text after <span class="spacer"> is the empty string
EmptyDuration == [Movie1 EXCEPT !.spacer = [kind |-> "text", text |-> <<>>]]

\* the detail pages the transport of the model serves
Docs == {Movie1, Movie12, NoMain, NoHome, NoPressNote, DashPressNote}

(***************************************************************************)
(* _parse_movie, lines 227-236: the extractor loop.                        *)
(***************************************************************************)
\* only AttributeError is caught; the field is then None
Caught(exc) == exc = "AttributeError"

\* the fields whose extractor raises an exception the loop does not catch
Escaping(movie) ==
    {j \in 1..Len(movie_infos) :
        LET r == Extract(movie_infos[j], movie) IN r.exc # "" /\ ~Caught(r.exc)}

\* the dict movie_datas after a loop that ran to its end
MovieDatas(movie) ==
    [info \in Range(movie_infos) |->
        LET r == Extract(info, movie) IN IF r.exc = "" THEN r.val ELSE NoneV]

(***************************************************************************)
(* Configurations (ScraperConfig) and prior snapshots of the model.        *)
(***************************************************************************)
PauseRanges == {<<0, 1>>, <<1, 1>>}

\* output_csv_name: "m.csv", and two names the pattern .*\.csv$ does not match
CsvName == <<"m", ".", "c", "s", "v">>
TxtName == <<"m", ".", "t", "x", "t">>
NoDotName == <<"m", "c", "s", "v">>

\* the configurations ScraperConfig accepts
Configs ==
    [number_of_pages : 1..MaxPages,
     from_page : 1..MaxFromPage,
     output_csv_name : {CsvName},
     pause_scraping : PauseRanges,
     append_result : BOOLEAN]

\* the arguments a caller may hand to ScraperConfig or to the command line
RawConfigs ==
    [number_of_pages : (-1)..MaxPages,
     from_page : (-1)..MaxFromPage,
     output_csv_name : {CsvName, TxtName, NoDotName},
     pause_scraping : PauseRanges \cup {<<1, 0>>},
     append_result : BOOLEAN]

\* the pattern .*\.csv$ of output_csv_name
MatchesCsvPattern(name) ==
    Len(name) >= 4 /\ SubSeq(name, Len(name) - 3, Len(name)) = <<".", "c", "s", "v">>

\* validate_pause_range: the range is rejected when v[0] > v[1]
validate_pause_range(v) == IF v[1] > v[2] THEN Raise("ValueError") ELSE Ret(NoneV)

\* mutant: the file name pattern is not checked
ScraperConfigAnyName(raw) ==
    IF \/ ~(raw.number_of_pages > 0)
       \/ ~(raw.from_page > 0)
       \/ validate_pause_range(raw.pause_scraping).exc # ""
    THEN Raise("ValidationError")
    ELSE Ret(NoneV)

\* ScraperConfig(**raw): the fields are validated when the model is constructed
ScraperConfig(raw) ==
    IF \/ ~(raw.number_of_pages > 0)
       \/ ~(raw.from_page > 0)
       \/ ~MatchesCsvPattern(raw.output_csv_name)
       \/ validate_pause_range(raw.pause_scraping).exc # ""
    THEN Raise("ValidationError")
    ELSE Ret(NoneV)

\* mutant: the command line does not check the pause range
CliBadParameterNoPause(raw) ==
    IF raw.number_of_pages < 1 THEN "--number_of_pages"
    ELSE IF raw.from_page < 1 THEN "--from_page"
    ELSE ""

\* cli, lines 94-109: the checks before the scraper is built
CliBadParameter(raw) ==
    IF raw.number_of_pages < 1 THEN "--number_of_pages"
    ELSE IF raw.from_page < 1 THEN "--from_page"
    ELSE IF raw.pause_scraping[1] > raw.pause_scraping[2] THEN "--pause_scraping"
    ELSE ""

\* AllocineScraper(*args): __init__ takes self, config and settings, so a call
\* with more than two positional arguments raises TypeError before its body runs
InitCall(nargs) == IF nargs > 2 THEN Raise("TypeError") ELSE Ret(NoneV)

\* random.randrange(a, b): the values it may return; none when it raises ValueError
randrange(a, b) == a..(b - 1)

\* snapshots left by earlier runs: well-formed ones, one with a repeated id (the
\* revisions before drop_duplicates wrote those), one with a row without id
PriorCsvs ==
    { ToCsv(EmptyDataFrame),
      ToCsv(OneRowFrame(MovieDatas(Movie1))),
      ToCsv(Concat(OneRowFrame(MovieDatas(Movie1)), OneRowFrame(MovieDatas(NoTitle)))),
      ToCsv(Concat(OneRowFrame(MovieDatas(NoMain)), OneRowFrame(MovieDatas(Movie12)))) }

\* the output directory and the output file before the run
FileSystems ==
    {[dir |-> d, file |-> NoFile] : d \in {"exists", "absent", "blocked"}}
    \cup {[dir |-> "exists", file |-> f] : f \in PriorCsvs \cup {CorruptFile}}

(***************************************************************************)
(* State.                                                                  *)
(***************************************************************************)
VARIABLES
    config,         \* self.config
    fs,             \* the output directory and the output file
    prior,          \* the output file as it was before the run
    pc,             \* where the run is
    err,            \* the exception that ended the run and where it was raised
    df,             \* self.df
    exclude_ids,    \* self.exclude_ids: the list is read through "in" and its
                    \* truth value only, so the set of its elements stands for it
    number,         \* the listing page of the outer loop
    res_page,       \* the links of the listing page fetched last
    urls_to_parse,  \* the links of the inner loop
    i,              \* the position of the inner loop in urls_to_parse
    res_movie,      \* the detail page fetched last
    movie_datas,    \* the record extracted last
    appended,       \* history: the ids of the records whose append has completed
    pages_fetched,  \* history: the listing pages _get_page has returned, in order
    processed,      \* history: the ids of the links whose detail page this run
                    \* has fetched and parsed
    cli_result,     \* the exit code and the error output of the command line
    links_fetched,  \* history: the links of the current listing page whose
                    \* detail page _get_movie has returned, in order
    writes_on_page, \* history: the calls of to_csv for the current listing page
    pauses,         \* history: the calls of time.sleep
    details,        \* history: the detail pages _get_movie has returned
    class_df,       \* AllocineScraper.df, the table of the class
    bound,          \* the instance has a df of its own: self.df has been assigned
    instances       \* the scrapers constructed in this process so far

vars == <<config, fs, prior, pc, err, df, exclude_ids, number, res_page,
          urls_to_parse, i, res_movie, movie_datas, appended, pages_fetched,
          processed, cli_result, links_fetched, writes_on_page, pauses, details,
          class_df, bound, instances>>

history == <<pages_fetched, processed, cli_result>>

counters == <<links_fetched, writes_on_page, pauses, details>>

process == <<class_df, instances>>

NoError == [exc |-> "", at |-> ""]
\* the command line has not ended, or the scraper is used as a library
NoResult == [exit_code |-> -1, output |-> ""]
Error(exc, at) == [exc |-> exc, at |-> at]

NoRecord == [info \in Range(movie_infos) |-> NoneV]

\* no detail page fetched yet
NoPage == [Movie1 EXCEPT !.main = FALSE, !.home = [kind |-> "none", href |-> <<>>]]

Init ==
    /\ config \in RawConfigs
    /\ fs \in FileSystems
    /\ config.append_result \/ fs.file \in {NoFile, ToCsv(OneRowFrame(MovieDatas(Movie1)))}
    /\ prior = fs.file
    /\ pc \in {"config", "cli"}
    /\ err = NoError
    /\ df = EmptyDataFrame
    /\ exclude_ids = {}
    /\ number = 0
    /\ res_page = <<>>
    /\ urls_to_parse = <<>>
    /\ i = 0
    /\ res_movie = NoPage
    /\ movie_datas = NoRecord
    /\ appended = {}
    /\ pages_fetched = <<>>
    /\ processed = {}
    /\ cli_result = NoResult
    /\ links_fetched = <<>>
    /\ writes_on_page = 0
    /\ pauses = 0
    /\ details = 0
    /\ class_df = EmptyDataFrame
    /\ bound = FALSE
    /\ instances = 1

\* mutant: the failed call is made again
FailAndRetry(exc, at) ==
    /\ pc' = pc
    /\ err' = Error(exc, at)

\* an exception leaves the run: nothing else changes
Fail(exc, at) ==
    /\ pc' = "failed"
    /\ err' = Error(exc, at)

(***************************************************************************)
(* ScraperConfig(...): the caller of the library builds the configuration  *)
(***************************************************************************)
ValidateConfig ==
    /\ pc = "config"
    /\ IF ScraperConfig(config).exc # ""
       THEN Fail(ScraperConfig(config).exc, "ScraperConfig")
       ELSE pc' = "new" /\ UNCHANGED err
    /\ UNCHANGED <<config, fs, prior, df, exclude_ids, number, res_page, urls_to_parse,
                   i, res_movie, movie_datas, appended, history, counters,
                   process, bound>>

(***************************************************************************)
(* run.cli: the checks, then AllocineScraper(number_of_pages, from_page,   *)
(* output_dir, output_csv_name, pause_scraping, append_result) inside try; *)
(* the except clause echoes the error to stderr and raises it again.       *)
(***************************************************************************)
Cli ==
    /\ pc = "cli"
    /\ IF CliBadParameter(config) # ""
       THEN /\ Fail("BadParameter", CliBadParameter(config))
            /\ cli_result' = [exit_code |-> 2, output |-> "Error: Invalid value"]
       ELSE IF InitCall(6).exc # ""
       THEN /\ Fail(InitCall(6).exc, "AllocineScraper")
            /\ cli_result' = [exit_code |-> 1, output |-> "Error during scraping"]
       ELSE /\ pc' = "new"
            /\ UNCHANGED <<err, cli_result>>
    /\ UNCHANGED <<config, fs, prior, df, exclude_ids, number, res_page, urls_to_parse,
                   i, res_movie, movie_datas, appended, pages_fetched, processed,
                   counters,
                   process, bound>>

(***************************************************************************)
(* AllocineScraper.__init__                                                *)
(***************************************************************************)
\* mutant: a readable output file is loaded into the table in either mode
ConstructLoadsInAnyMode ==
    /\ pc = "new"
    /\ IF config.append_result \/ LoadError(fs.file) = ""
       THEN IF LoadError(fs.file) # ""
            THEN /\ Fail("FileNotFoundError", "__init__")
                 /\ UNCHANGED <<df, bound, exclude_ids>>
            ELSE /\ df' = ReadCsv(fs.file)
                 /\ bound' = config.append_result
                 /\ exclude_ids' = IF config.append_result THEN IdList(ReadCsv(fs.file))
                                   ELSE exclude_ids
                 /\ pc' = "ready"
                 /\ UNCHANGED err
       ELSE /\ pc' = "ready"
            /\ UNCHANGED <<df, bound, exclude_ids, err>>
    /\ UNCHANGED <<config, fs, prior, number, res_page, urls_to_parse, i, res_movie,
                   movie_datas, appended, history, counters,
                   process>>

\* AllocineScraper.__init__ after the configuration is stored
Construct ==
    /\ pc = "new"
    /\ IF config.append_result
       THEN IF LoadError(fs.file) # ""
            THEN /\ Fail("FileNotFoundError", "__init__")
                 /\ UNCHANGED <<df, bound, exclude_ids>>
            ELSE /\ df' = ReadCsv(fs.file)
                 /\ bound' = TRUE
                 /\ exclude_ids' = IdList(ReadCsv(fs.file))
                 /\ pc' = "ready"
                 /\ UNCHANGED err
       ELSE /\ pc' = "ready"
            /\ UNCHANGED <<df, bound, exclude_ids, err>>
    /\ UNCHANGED <<config, fs, prior, number, res_page, urls_to_parse, i, res_movie,
                   movie_datas, appended, history, counters,
                   process>>

(***************************************************************************)
(* AllocineScraper.scraping_movies                                         *)
(***************************************************************************)
\* mutant: the walk ends at the page the log of line 261 names as the last one
LastPageAsLogged == config.from_page + config.number_of_pages

\* range(from_page, from_page + number_of_pages): its last element
LastPage == config.from_page + config.number_of_pages - 1

\* randrange(a, b) raises ValueError for an empty range
RandrangeFails == randrange(config.pause_scraping[1], config.pause_scraping[2]) = {}

\* the call, and the first round of the outer loop
StartScraping ==
    /\ pc = "ready"
    /\ number' = config.from_page
    /\ pc' = "page_pause"
    /\ UNCHANGED <<config, fs, prior, err, df, exclude_ids, res_page, urls_to_parse, i,
                   res_movie, movie_datas, appended, history, counters,
                   process, bound>>

\* line 262: the pause before a listing page
PagePause ==
    /\ pc = "page_pause"
    /\ IF RandrangeFails
       THEN Fail("ValueError", "randrange") /\ UNCHANGED pauses
       ELSE pc' = "get_page" /\ pauses' = pauses + 1 /\ UNCHANGED err
    /\ UNCHANGED <<config, fs, prior, df, exclude_ids, number, res_page, urls_to_parse,
                   i, res_movie, movie_datas, appended, history, links_fetched,
                   writes_on_page, details,
                   process, bound>>

\* line 263: the listing page arrives
GetPage ==
    /\ pc = "get_page"
    /\ \E page \in ListingPages : res_page' = page
    /\ pages_fetched' = Append(pages_fetched, number)
    /\ pc' = "parse_page"
    /\ UNCHANGED <<config, fs, prior, err, df, exclude_ids, number, urls_to_parse, i,
                   res_movie, movie_datas, appended, processed, cli_result, counters,
                   process, bound>>

\* line 263: the transport fails
GetPageFails ==
    /\ pc = "get_page"
    /\ Fail("RequestException", "get_page")
    /\ UNCHANGED <<config, fs, prior, df, exclude_ids, number, res_page, urls_to_parse,
                   i, res_movie, movie_datas, appended, history, counters,
                   process, bound>>

\* mutant: a listing page without links to parse ends the run
ParsePageEmptyEndsRun ==
    /\ pc = "parse_page"
    /\ LET r == parse_page(res_page, config.append_result, exclude_ids)
       IN  IF r.exc # ""
           THEN /\ Fail(r.exc, "parse_page")
                /\ UNCHANGED <<urls_to_parse, i>>
           ELSE /\ urls_to_parse' = r.val
                /\ i' = 1
                /\ pc' = IF r.val = <<>> THEN "done" ELSE "get_movie"
                /\ UNCHANGED err
    /\ UNCHANGED <<config, fs, prior, df, exclude_ids, number, res_page, res_movie,
                   movie_datas, appended, history, counters,
                   process, bound>>

\* line 264, and the entry of the inner loop
ParsePage ==
    /\ pc = "parse_page"
    /\ LET r == parse_page(res_page, config.append_result, exclude_ids)
       IN  IF r.exc # ""
           THEN /\ Fail(r.exc, "parse_page")
                /\ UNCHANGED <<urls_to_parse, i>>
           ELSE /\ urls_to_parse' = r.val
                /\ i' = 1
                /\ pc' = IF r.val = <<>> THEN "page_end_pause" ELSE "get_movie"
                /\ UNCHANGED err
    /\ UNCHANGED <<config, fs, prior, df, exclude_ids, number, res_page, res_movie,
                   movie_datas, appended, history, counters,
                   process, bound>>

\* line 272: the detail page arrives
GetMovie ==
    /\ pc = "get_movie"
    /\ \E movie \in Docs : res_movie' = movie
    /\ links_fetched' = Append(links_fetched, urls_to_parse[i])
    /\ details' = details + 1
    /\ pc' = "parse_movie"
    /\ UNCHANGED <<config, fs, prior, err, df, exclude_ids, number, res_page,
                   urls_to_parse, i, movie_datas, appended, history, writes_on_page,
                   pauses,
                   process, bound>>

\* line 272: the transport fails
GetMovieFails ==
    /\ pc = "get_movie"
    /\ Fail("RequestException", "get_movie")
    /\ UNCHANGED <<config, fs, prior, df, exclude_ids, number, res_page, urls_to_parse,
                   i, res_movie, movie_datas, appended, history, counters,
                   process, bound>>

\* line 273: _parse_movie, whole
ParseMovie ==
    /\ pc = "parse_movie"
    /\ IF fs.dir = "blocked"
       THEN /\ Fail("OSError", "makedirs")
            /\ UNCHANGED <<fs, df, bound, movie_datas, appended, writes_on_page>>
       ELSE IF Escaping(res_movie) # {}
       THEN /\ Fail(Extract(movie_infos[SetMin(Escaping(res_movie))], res_movie).exc,
                    movie_infos[SetMin(Escaping(res_movie))])
            /\ fs' = [fs EXCEPT !.dir = "exists"]
            /\ UNCHANGED <<df, bound, movie_datas, appended, writes_on_page>>
       ELSE /\ movie_datas' = MovieDatas(res_movie)
            /\ df' = AddRecord(df, MovieDatas(res_movie))
            /\ bound' = TRUE
            /\ fs' = [dir |-> "exists", file |-> ToCsv(AddRecord(df, MovieDatas(res_movie)))]
            /\ appended' = appended \cup
                    (IF IsNull(MovieDatas(res_movie)["id"]) THEN {}
                     ELSE {MovieDatas(res_movie)["id"].n})
            /\ writes_on_page' = writes_on_page + 1
            /\ pc' = "exclude"
            /\ UNCHANGED err
    /\ UNCHANGED <<config, prior, exclude_ids, number, res_page, urls_to_parse, i,
                   res_movie, history, links_fetched, pauses, details,
                   process>>

\* mutant: the links left are filtered again after every detail page
MoviePauseFiltersAgain ==
    /\ pc = "exclude"
    /\ LET r == UrlId(urls_to_parse[i])
       IN  IF r.exc # ""
           THEN /\ Fail(r.exc, "exclude_ids")
                /\ UNCHANGED <<exclude_ids, i, res_movie, movie_datas, processed, pauses,
                               urls_to_parse>>
           ELSE /\ exclude_ids' = exclude_ids \cup {r.val.n}
                /\ processed' = processed \cup {r.val.n}
                /\ pauses' = pauses + 1
                /\ i' = i + 1
                /\ urls_to_parse' =
                       SubSeq(urls_to_parse, 1, i)
                       \o SelectSeq(SubSeq(urls_to_parse, i + 1, Len(urls_to_parse)),
                                    LAMBDA url : UrlId(url).val.n \notin exclude_ids \cup {r.val.n})
                /\ pc' = IF i + 1 > Len(urls_to_parse') THEN "page_end_pause"
                         ELSE "get_movie"
                /\ res_movie' = NoPage
                /\ movie_datas' = NoRecord
                /\ UNCHANGED err
    /\ UNCHANGED <<config, fs, prior, df, number, res_page, appended,
                   pages_fetched, cli_result, links_fetched, writes_on_page, details,
                   process, bound>>

\* mutant: the inner loop is left after its first round
MoviePauseLeavesPage ==
    /\ pc = "exclude"
    /\ LET r == UrlId(urls_to_parse[i])
       IN  IF r.exc # ""
           THEN /\ Fail(r.exc, "exclude_ids")
                /\ UNCHANGED <<exclude_ids, i, res_movie, movie_datas, processed, pauses>>
           ELSE /\ exclude_ids' = exclude_ids \cup {r.val.n}
                /\ processed' = processed \cup {r.val.n}
                /\ pauses' = pauses + 1
                /\ i' = i + 1
                /\ pc' = "page_end_pause"
                /\ res_movie' = NoPage
                /\ movie_datas' = NoRecord
                /\ UNCHANGED err
    /\ UNCHANGED <<config, fs, prior, df, number, res_page, urls_to_parse, appended,
                   pages_fetched, cli_result, links_fetched, writes_on_page, details,
                   process, bound>>

\* lines 275-281: the id of the link joins exclude_ids, then the pause; the
\* detail page and its record are dead from here on and are forgotten
MoviePause ==
    /\ pc = "exclude"
    /\ LET r == UrlId(urls_to_parse[i])
       IN  IF r.exc # ""
           THEN /\ Fail(r.exc, "exclude_ids")
                /\ UNCHANGED <<exclude_ids, i, res_movie, movie_datas, processed, pauses>>
           ELSE /\ exclude_ids' = exclude_ids \cup {r.val.n}
                /\ processed' = processed \cup {r.val.n}
                /\ pauses' = pauses + 1
                /\ i' = i + 1
                /\ pc' = IF i + 1 > Len(urls_to_parse) THEN "page_end_pause"
                         ELSE "get_movie"
                /\ res_movie' = NoPage
                /\ movie_datas' = NoRecord
                /\ UNCHANGED err
    /\ UNCHANGED <<config, fs, prior, df, number, res_page, urls_to_parse, appended,
                   pages_fetched, cli_result, links_fetched, writes_on_page, details,
                   process, bound>>

\* mutant: no pause after a listing page
PageEndNoPause ==
    /\ pc = "page_end_pause"
    /\ number' = number + 1
    /\ pc' = IF number + 1 > LastPage THEN "done" ELSE "page_pause"
    /\ res_page' = <<>>
    /\ urls_to_parse' = <<>>
    /\ i' = 0
    /\ links_fetched' = <<>>
    /\ writes_on_page' = 0
    /\ UNCHANGED <<config, fs, prior, err, df, exclude_ids, res_movie, movie_datas,
                   appended, history, details, pauses,
                   process, bound>>

\* lines 283-288: the pause after a listing page, and the next round; the
\* listing page and its links are dead from here on and are forgotten
PageEndPause ==
    /\ pc = "page_end_pause"
    /\ number' = number + 1
    /\ pc' = IF number + 1 > LastPage THEN "done" ELSE "page_pause"
    /\ res_page' = <<>>
    /\ urls_to_parse' = <<>>
    /\ i' = 0
    /\ pauses' = pauses + 1
    /\ links_fetched' = <<>>
    /\ writes_on_page' = 0
    /\ UNCHANGED <<config, fs, prior, err, df, exclude_ids, res_movie, movie_datas,
                   appended, history, details,
                   process, bound>>

Next ==
    \/ ValidateConfig
    \/ Cli
    \/ Construct
    \/ StartScraping
    \/ PagePause
    \/ GetPage
    \/ GetPageFails
    \/ ParsePage
    \/ GetMovie
    \/ GetMovieFails
    \/ ParseMovie
    \/ MoviePause
    \/ PageEndPause

Spec == Init /\ [][Next]_vars

(***************************************************************************)
(* The extractors on their own, as the unit tests call them: a detail page *)
(* is parsed and the extractor loop of _parse_movie runs over it, without  *)
(* a table and without a file.                                             *)
(***************************************************************************)
DigitChar(d) == <<"0", "1", "2", "3", "4", "5", "6", "7", "8", "9">>[d + 1]

\* str(n) for n >= 0
RECURSIVE IntToDigits(_)
IntToDigits(n) ==
    IF n < 10 THEN <<DigitChar(n)>>
    ELSE IntToDigits(n \div 10) \o <<DigitChar(n % 10)>>

\* the text " <H>h <M>min " after <span class="spacer">
DurationText(H, M) ==
    <<" ">> \o IntToDigits(H) \o <<"h", " ">> \o IntToDigits(M) \o <<"min", " ">>

DurationMinutes == {0, 2, 59}

DurationDocs ==
    {[Movie1 EXCEPT !.spacer = [kind |-> "text", text |-> DurationText(H, M)]] :
        H \in 0..MaxHours, M \in DurationMinutes}

\* <div class="rating-item"> blocks: of the press, of the spectators, of
\* neither, and one of the press without <span class="stareval-note">
RatingBlocks ==
    { Block({"Presse"}, Text(<<"2", ",", "4">>), Text(<<"1", "7", " ", "c">>)),
      Block({"Presse"}, Text(<<"3", ",", "0">>), Text(<<"2", "1", " ", "c">>)),
      Block({"Spectateurs"}, Text(<<"3", ",", "0">>),
            Text(<<"2", "5", " ", "n", ",", " ", "3", " ", "c">>)),
      Block({"Spectateurs"}, Text(<<"4", ",", "1">>),
            Text(<<"3", "0", "1", "5", " ", "n", ",", " ", "7", " ", "c">>)),
      Block({"Mes amis"}, Text(<<"1", ",", "0">>), Text(<<"2", " ", "n">>)),
      Block({"Presse"}, Absent, Text(<<"1", "7", " ", "c">>)) }

RatingDocs ==
    {[Movie1 EXCEPT !.ratings = blocks] : blocks \in SeqsUpTo(RatingBlocks, MaxBlocks)}

ExtractDocs ==
    DurationDocs \cup RatingDocs \cup {BlankDuration, EmptyDuration, DashPressNote, NoMain}

InitExtract ==
    /\ config \in {c \in Configs : c.number_of_pages = 1 /\ c.from_page = 1
                                   /\ c.pause_scraping = <<0, 1>> /\ ~c.append_result}
    /\ fs = [dir |-> "exists", file |-> NoFile]
    /\ prior = NoFile
    /\ pc = "extract"
    /\ err = NoError
    /\ df = EmptyDataFrame
    /\ exclude_ids = {}
    /\ number = 0
    /\ res_page = <<>>
    /\ urls_to_parse = <<>>
    /\ i = 0
    /\ res_movie \in ExtractDocs
    /\ movie_datas = NoRecord
    /\ appended = {}
    /\ pages_fetched = <<>>
    /\ processed = {}
    /\ cli_result = NoResult
    /\ links_fetched = <<>>
    /\ writes_on_page = 0
    /\ pauses = 0
    /\ details = 0
    /\ class_df = EmptyDataFrame
    /\ bound = FALSE
    /\ instances = 1

\* lines 227-236: each extractor in turn on the parsed page
ExtractLoop ==
    /\ pc = "extract"
    /\ IF Escaping(res_movie) # {}
       THEN /\ Fail(Extract(movie_infos[SetMin(Escaping(res_movie))], res_movie).exc,
                    movie_infos[SetMin(Escaping(res_movie))])
            /\ UNCHANGED movie_datas
       ELSE /\ movie_datas' = MovieDatas(res_movie)
            /\ pc' = "extracted"
            /\ UNCHANGED err
    /\ UNCHANGED <<config, fs, prior, df, exclude_ids, number, res_page, urls_to_parse,
                   i, res_movie, appended, history, counters,
                   process, bound>>

NextExtract == ExtractLoop

SpecExtract == InitExtract /\ [][NextExtract]_vars

(***************************************************************************)
(* Several scrapers in one process, as in the test session: each is        *)
(* constructed, _parse_movie is called on it with detail pages, and the    *)
(* next one is constructed.  self.df reads the df of the instance when the *)
(* instance has one and AllocineScraper.df, the df of the class, when not. *)
(***************************************************************************)
InstanceConfigs ==
    {c \in Configs : c.number_of_pages = 1 /\ c.from_page = 1 /\ c.pause_scraping = <<0, 1>>}

InitInstances ==
    /\ config \in InstanceConfigs
    /\ fs \in {f \in FileSystems : f.dir = "exists"}
    /\ prior = fs.file
    /\ pc = "new"
    /\ err = NoError
    /\ df = EmptyDataFrame
    /\ exclude_ids = {}
    /\ number = 0
    /\ res_page = <<>>
    /\ urls_to_parse = <<>>
    /\ i = 0
    /\ res_movie = NoPage
    /\ movie_datas = NoRecord
    /\ appended = {}
    /\ pages_fetched = <<>>
    /\ processed = {}
    /\ cli_result = NoResult
    /\ links_fetched = <<>>
    /\ writes_on_page = 0
    /\ pauses = 0
    /\ details = 0
    /\ class_df = EmptyDataFrame
    /\ bound = FALSE
    /\ instances = 1

\* mutant: the record is appended in place, to the table self.df reads
DirectParseMovieInPlace ==
    /\ pc = "ready"
    /\ \E movie \in Docs :
          IF Escaping(movie) # {}
          THEN /\ Fail(Extract(movie_infos[SetMin(Escaping(movie))], movie).exc,
                       movie_infos[SetMin(Escaping(movie))])
               /\ UNCHANGED <<fs, df, bound, appended, class_df>>
          ELSE /\ df' = AddRecord(df, MovieDatas(movie))
               /\ class_df' = IF bound THEN class_df ELSE AddRecord(df, MovieDatas(movie))
               /\ UNCHANGED bound
               /\ fs' = [dir |-> "exists", file |-> ToCsv(AddRecord(df, MovieDatas(movie)))]
               /\ appended' = appended \cup
                       (IF IsNull(MovieDatas(movie)["id"]) THEN {}
                        ELSE {MovieDatas(movie)["id"].n})
               /\ UNCHANGED <<pc, err>>
    /\ UNCHANGED <<config, prior, exclude_ids, number, res_page, urls_to_parse, i,
                   res_movie, movie_datas, history, counters, instances>>

\* scraper._parse_movie(response), lines 213-244, called on a constructed
\* scraper: self.df = ... gives the instance a df of its own
DirectParseMovie ==
    /\ pc = "ready"
    /\ \E movie \in Docs :
          IF Escaping(movie) # {}
          THEN /\ Fail(Extract(movie_infos[SetMin(Escaping(movie))], movie).exc,
                       movie_infos[SetMin(Escaping(movie))])
               /\ UNCHANGED <<fs, df, bound, appended>>
          ELSE /\ df' = AddRecord(df, MovieDatas(movie))
               /\ bound' = TRUE
               /\ fs' = [dir |-> "exists", file |-> ToCsv(AddRecord(df, MovieDatas(movie)))]
               /\ appended' = appended \cup
                       (IF IsNull(MovieDatas(movie)["id"]) THEN {}
                        ELSE {MovieDatas(movie)["id"].n})
               /\ UNCHANGED <<pc, err>>
    /\ UNCHANGED <<config, prior, exclude_ids, number, res_page, urls_to_parse, i,
                   res_movie, movie_datas, history, counters, process>>

\* the next AllocineScraper of the process: a new instance has no df of its
\* own, so its self.df is the df of the class
NewScraper ==
    /\ pc \in {"ready", "failed"}
    /\ instances < MaxInstances
    /\ instances' = instances + 1
    /\ config' \in InstanceConfigs
    /\ prior' = fs.file
    /\ pc' = "new"
    /\ err' = NoError
    /\ df' = class_df
    /\ bound' = FALSE
    /\ exclude_ids' = {}
    /\ appended' = {}
    /\ UNCHANGED <<fs, number, res_page, urls_to_parse, i, res_movie, movie_datas,
                   history, counters, class_df>>

NextInstances ==
    \/ Construct
    \/ DirectParseMovie
    \/ NewScraper

SpecInstances == InitInstances /\ [][NextInstances]_vars

(***************************************************************************)
(* Properties.                                                             *)
(***************************************************************************)
\* a cell or value that holds an id
HasId(v) == v.k \notin {"None", "NaN", "empty"}

\* no two of the rows hold the same id
UniqueIds(rows) ==
    \A a, b \in 1..Len(rows) :
        (a # b /\ HasId(rows[a]["id"])) => rows[a]["id"] # rows[b]["id"]

\* the ids held by the rows
IdsOf(rows) == {rows[j]["id"].n : j \in {h \in 1..Len(rows) : HasId(rows[h]["id"])}}

\* a step of ParseMovie that appended and persisted a record
Appends == pc = "parse_movie" /\ pc' = "exclude"

\* C1: at every point of a run, right after seeding from any prior snapshot
\* included, no two rows of the record store share an id, and right after
\* every write no two rows of the persisted file do.
C1_UniqueIdsAtAllTimes ==
    /\ UniqueIds(df.rows)
    /\ pc = "exclude" => UniqueIds(fs.file.rows)

\* C2: a record appended to an empty store leaves exactly one row in the table
\* and in the file, and the same record appended once more leaves the table and
\* the file as they were after the first append.
C2_IdempotentReappend ==
    [][Appends =>
         /\ IsEmpty(df) =>
               /\ df'.rows = <<movie_datas'>>
               /\ fs'.file = ToCsv(OneRowFrame(movie_datas'))
         /\ (df.rows = <<movie_datas'>> /\ df.columns = movie_infos) =>
               /\ df' = df
               /\ Len(fs'.file.rows) = 1
               /\ fs'.file = ToCsv(df)]_vars

\* C2 witness: in a run that started with an empty store the record of the one
\* stored row has been appended again, and table and file hold that one row.
C2_Witness ==
    /\ pc = "exclude"
    /\ ~config.append_result
    /\ exclude_ids # {}
    /\ df.rows = <<movie_datas>>
    /\ Len(fs.file.rows) = 1

\* C3: whenever a run has reached Done, a run without any detail link included,
\* the output file exists and has the 13 columns of the schema in their order.
C3_SchemaAtDone ==
    pc = "done" => fs.file.kind = "csv" /\ fs.file.columns = movie_infos

\* C4: between any two steps of a run the persisted file equals the table, is
\* free of duplicate ids and holds the id of every record whose append has
\* completed.
C4_FileEqualsTableBetweenSteps ==
    pc \notin {"config", "cli", "new", "failed"} =>
        /\ fs.file = ToCsv(df)
        /\ UniqueIds(fs.file.rows)
        /\ appended \subseteq IdsOf(fs.file.rows)

\* the id of a well-formed link: the digits after its last "=" and before ".html"
\* (-1 for a link without "=", which carries no id)
LinkDigits(url) == SubSeq(url, SetMax(Positions(url, "=")) + 1, Len(url) - 2)
LinkId(url) == IF Positions(url, "=") = {} THEN -1 ELSE DigitsToInt(LinkDigits(url))

\* the positions of a listing page whose link carries an excluded id
ExcludedPositions(page, ids) == {j \in 1..Len(page) : LinkId(page[j]) \in ids}

\* the filter of the listing page has just run, on the exclude_ids of this state
AfterParsePage == pc \in {"get_movie", "page_end_pause"} /\ i = 1

\* the condition of line 202
FilterActive == config.append_result /\ exclude_ids # {}

C6_FilterIdentityWhenOff ==
    (AfterParsePage /\ ~FilterActive) => urls_to_parse = res_page

\* C6 witness: append mode is off, a link of the page carries an id that is in
\* exclude_ids and in the store, and the link is returned all the same.
C6_Witness ==
    /\ AfterParsePage
    /\ ~config.append_result
    /\ res_page = <<Link12, Link1>>
    /\ 1 \in exclude_ids
    /\ 1 \in IdsOf(df.rows)
    /\ urls_to_parse = res_page

\* the prior snapshot is missing or unreadable
Unloadable(file) == file.kind \in {"absent", "corrupt"}

\* no listing page and no detail page has been asked for, nothing was written
NothingFetched ==
    /\ number = 0
    /\ res_page = <<>>
    /\ res_movie = NoPage
    /\ fs.file = prior

\* __init__ has been entered: the configuration was accepted and the call bound
ConstructionStarted ==
    /\ pc \notin {"config", "cli", "new"}
    /\ err.at \notin {"ScraperConfig", "AllocineScraper", "--number_of_pages",
                     "--from_page", "--pause_scraping"}

\* C7: in append mode with a prior snapshot that cannot be loaded, construction
\* fails with FileNotFoundError before any fetch; a scraper in append mode that
\* did start has loaded its snapshot.
C7_AppendWithoutSnapshotFails ==
    (config.append_result /\ Unloadable(prior) /\ ConstructionStarted) =>
        /\ pc = "failed"
        /\ err = Error("FileNotFoundError", "__init__")
        /\ NothingFetched

\* C7 witness: construction has failed on an unreadable snapshot.
C7_Witness ==
    /\ pc = "failed"
    /\ config.append_result
    /\ prior.kind = "corrupt"
    /\ err.at = "__init__"

\* C8: right after a successful seed the table holds the rows of the prior
\* snapshot, row by row and cell by cell, and exclude_ids holds exactly the
\* ids of the cells of its id column that are not empty.
C8_SeedLoadsSnapshot ==
    (pc = "ready" /\ config.append_result) =>
        /\ df.columns = prior.columns
        /\ Len(df.rows) = Len(prior.rows)
        /\ \A j \in 1..Len(prior.rows) : \A c \in Range(prior.columns) :
               ToCell(df.rows[j][c]) = prior.rows[j][c]
        /\ exclude_ids = {prior.rows[j]["id"].n :
                             j \in {h \in 1..Len(prior.rows) : prior.rows[h]["id"].k = "int"}}

\* C8 witness: the snapshot seeded has a row without id and a row with id 12.
C8_Witness ==
    /\ pc = "ready"
    /\ config.append_result
    /\ Len(prior.rows) = 2
    /\ prior.rows[1]["id"].k = "empty"
    /\ exclude_ids = {12}

\* C9: an append never removes an id from the table or the file, and an append
\* of a record with a new id in append mode leaves one row more than before
\* and as many columns.
C9_NoRecordDeleted ==
    [][Appends =>
         /\ IdsOf(df.rows) \subseteq IdsOf(df'.rows)
         /\ IdsOf(df.rows) \subseteq IdsOf(fs'.file.rows)
         /\ ( /\ config.append_result
              /\ HasId(movie_datas'["id"])
              /\ movie_datas'["id"].n \notin IdsOf(df.rows) )
            => /\ Len(df'.rows) = Len(df.rows) + 1
               /\ Len(fs'.file.rows) = Len(df.rows) + 1
               /\ Len(fs'.file.columns) = Len(df.columns)]_vars

\* the fields other than id
NonIdInfos == Range(movie_infos) \ {"id"}

\* C10: a fault of the extractor of a field other than id never ends the run;
\* the record is appended with None for a field whose extractor raised and
\* with the extractor's value for every other field, and it is persisted.
C10_FieldFaultIsolated ==
    /\ pc = "failed" => err.at \notin NonIdInfos
    /\ pc = "exclude" =>
          /\ \A info \in NonIdInfos :
                movie_datas[info] = IF Extract(info, res_movie).exc # "" THEN NoneV
                                    ELSE Extract(info, res_movie).val
          /\ fs.file = ToCsv(df)

\* the id extractor does not find its element on the detail page just fetched
IdNotFound == pc = "parse_movie" /\ get_movie_id(res_movie).exc # ""

\* the rows without id
RowsWithoutId(rows) == {j \in 1..Len(rows) : ~HasId(rows[j]["id"])}

\* C11: when the id extractor cannot locate its element on a detail page the
\* record is abandoned: the table and the file stay as they are, so the run
\* adds no row without id.
C11_IdlessRecordAbandoned ==
    [][IdNotFound =>
          /\ df' = df
          /\ fs'.file = fs.file
          /\ Cardinality(RowsWithoutId(df'.rows)) = Cardinality(RowsWithoutId(df.rows))]_vars

\* C12: when the id extractor cannot locate its element on a detail page, and
\* nothing else goes wrong with that page, the run goes on with the next link.
C12_IdFaultDoesNotEndRun ==
    [][(IdNotFound /\ fs.dir # "blocked" /\ Escaping(res_movie) \subseteq {1}) =>
          pc' # "failed"]_vars

\* the listing pages f, f+1, ..., f+c-1 of a run with first page f and count c
ExpectedPages ==
    [k \in 1..config.number_of_pages |-> config.from_page + k - 1]

IsPrefix(a, b) == Len(a) <= Len(b) /\ a = SubSeq(b, 1, Len(a))

\* C13: the listing pages fetched are at every moment the first of f, f+1,
\* ..., f+c-1 in that order, each once; a run that reaches Done has fetched
\* them all; and after Done nothing happens any more, no fetch in particular.
C13_PagesInOrderThenDone ==
    [][/\ IsPrefix(pages_fetched', ExpectedPages)
       /\ pc' = "done" => pages_fetched' = ExpectedPages
       /\ pc # "done"]_vars

\* C13 witness: a run of two pages from page 2 is done and has fetched 2, 3.
C13_Witness ==
    /\ pc = "done"
    /\ config.from_page = 2
    /\ config.number_of_pages = 2
    /\ pages_fetched = <<2, 3>>

\* C14 as claimed: in every run the id of a link whose detail page has been
\* processed is in exclude_ids, and no listing page parsed later yields a link
\* with that id for a detail fetch.
C14_NoRefetchInAnyRun ==
    /\ processed \subseteq exclude_ids
    /\ AfterParsePage =>
          \A j \in 1..Len(urls_to_parse) : LinkId(urls_to_parse[j]) \notin processed

\* C14 as amended: the id of a processed link is in exclude_ids in every run,
\* and in a run in append mode no listing page parsed later yields a link with
\* that id for a detail fetch.
C14_NoRefetchInAppendMode ==
    /\ processed \subseteq exclude_ids
    /\ (AfterParsePage /\ config.append_result) =>
          \A j \in 1..Len(urls_to_parse) : LinkId(urls_to_parse[j]) \notin processed

\* C14 witness: append mode seeded from a snapshot without rows; the first
\* page led to movie 1, the second page lists it again and it is left out.
C14_Witness ==
    /\ AfterParsePage
    /\ config.append_result
    /\ prior = ToCsv(EmptyDataFrame)
    /\ Len(pages_fetched) = 2
    /\ processed = {1}
    /\ res_page = <<Link1, Link12>>
    /\ urls_to_parse = <<Link12>>

\* a pause is about to be drawn: lines 262, 276 and 283
BeforePause == pc \in {"page_pause", "exclude", "page_end_pause"}

\* C15: with a pause range (min, max) that validation has accepted, no call of
\* the pause generator fails, and every value it may return is at least min
\* and at most max.
C15_PauseWithinRange ==
    /\ err.at # "randrange"
    /\ BeforePause =>
          /\ randrange(config.pause_scraping[1], config.pause_scraping[2]) # {}
          /\ \A v \in randrange(config.pause_scraping[1], config.pause_scraping[2]) :
                 config.pause_scraping[1] <= v /\ v <= config.pause_scraping[2]

\* the configuration is one the claim calls invalid
InvalidConfig ==
    \/ config.number_of_pages <= 0
    \/ config.from_page <= 0
    \/ config.pause_scraping[1] > config.pause_scraping[2]
    \/ Len(config.output_csv_name) < 4
    \/ \E k \in 1..4 :
          config.output_csv_name[Len(config.output_csv_name) - 4 + k] # <<".", "c", "s", "v">>[k]

\* C16: building the configuration raises a validation error, before any
\* fetch, when the page count or the start page is not positive, when the
\* pause range has min > max or when the file name does not end in ".csv";
\* every other configuration is accepted, page count 1, start page 1 and
\* pause range (0, 1) among them.
C16_InvalidConfigRejected ==
    [][/\ pc = "config" =>
             IF InvalidConfig
             THEN /\ pc' = "failed"
                  /\ err' = Error("ValidationError", "ScraperConfig")
                  /\ NothingFetched'
             ELSE pc' = "new"
       /\ pages_fetched' # <<>> => ~InvalidConfig]_vars

\* C16 witness: a configuration whose only fault is the file name "m.txt" has
\* been rejected.
C16_Witness ==
    /\ pc = "failed"
    /\ err = Error("ValidationError", "ScraperConfig")
    /\ config.number_of_pages = 1
    /\ config.from_page = 1
    /\ config.pause_scraping = <<0, 1>>
    /\ config.output_csv_name = TxtName

\* the parameters of the command line are the ones the claims call valid
ValidParameters ==
    /\ config.number_of_pages >= 1
    /\ config.from_page >= 1
    /\ config.pause_scraping[1] <= config.pause_scraping[2]

\* C17: the command line, called with valid parameters and, in append mode,
\* with a prior file that can be loaded, builds the scraper and raises no
\* exception; when it has ended its exit code is 0.
C17_CliRunsToCompletion ==
    [][(pc = "cli" /\ ValidParameters /\ (config.append_result => ~Unloadable(prior))) =>
          /\ pc' = "new"
          /\ err' = NoError
          /\ cli_result'.exit_code \in {-1, 0}]_vars

\* C18: the command line rejects a page count below 1, a start page below 1
\* and a pause range with min > max with BadParameter, before the scraper is
\* built and before any fetch; and whenever the command line ends in a
\* failure, of validation or of the run, whatever the state of the output
\* directory and file, its exit code is not 0 and it has put out an error
\* message.
C18_CliFailuresAreVisible ==
    [][pc = "cli" =>
          /\ ~ValidParameters =>
                /\ pc' = "failed"
                /\ err'.exc = "BadParameter"
                /\ cli_result'.exit_code = 2
                /\ NothingFetched'
                /\ df' = df /\ exclude_ids' = exclude_ids
          /\ pc' = "failed" =>
                /\ cli_result'.exit_code \notin {-1, 0}
                /\ cli_result'.output # ""]_vars

\* C18 witness: the command line has rejected the pause range (1, 0).
C18_Witness ==
    /\ pc = "failed"
    /\ err = Error("BadParameter", "--pause_scraping")
    /\ config.pause_scraping = <<1, 0>>
    /\ cli_result.exit_code = 2
    /\ cli_result.output # ""

\* C19: a transport failure of a listing or detail fetch is raised to the
\* caller and changes neither the table nor the file; after it nothing happens
\* any more, no retry, no fetch and no append; and if an append has completed
\* before, the file is the table as that append wrote it.
C19_TransportFailureAborts ==
    [][/\ (pc \in {"get_page", "get_movie"} /\ pc' = "failed") =>
             /\ err'.exc = "RequestException"
             /\ fs' = fs /\ df' = df
             /\ pages_fetched' = pages_fetched
             /\ processed' = processed /\ appended' = appended
       /\ (err'.exc = "RequestException" /\ appended' # {}) => fs'.file = ToCsv(df')
       /\ err.exc # "RequestException"]_vars

\* C19 witness: the fetch of a detail page failed after the record of movie 1
\* had been appended and written.
C19_Witness ==
    /\ pc = "failed"
    /\ err = Error("RequestException", "get_movie")
    /\ appended = {1}
    /\ fs.file # prior
    /\ fs.file = ToCsv(df)

\* C20: the duration extractor turns every text "<H>h <M>min", H >= 0 and
\* 0 <= M < 60, into the number 60*H + M of minutes, for H >= 24 too.
C20_DurationIsTotalMinutes ==
    (pc = "extracted" /\ res_movie.main) =>
        \A H \in 0..MaxHours, M \in DurationMinutes :
            res_movie.spacer.text = DurationText(H, M) =>
                movie_datas["duration"] = IntV(60 * H + M)

\* what the texts of the rating blocks say, read by eye: the note in tenths
\* and the number of ratings
NoteShown(text) ==
    CASE text = <<"2", ",", "4">> -> FloatV(24)
      [] text = <<"3", ",", "0">> -> FloatV(30)
      [] text = <<"4", ",", "1">> -> FloatV(41)
      [] text = <<"1", ",", "0">> -> FloatV(10)

CountShown(text) ==
    CASE text = <<"1", "7", " ", "c">> -> FloatV(170)
      [] text = <<"2", "1", " ", "c">> -> FloatV(210)
      [] text = <<"2", "5", " ", "n", ",", " ", "3", " ", "c">> -> FloatV(250)
      [] text = <<"3", "0", "1", "5", " ", "n", ",", " ", "7", " ", "c">> -> FloatV(30150)
      [] text = <<"2", " ", "n">> -> FloatV(20)

\* the positions of the rating blocks whose text holds the discriminator
BlocksOf(movie, discriminator) ==
    {j \in 1..Len(movie.ratings) : discriminator \in movie.ratings[j].labels}

\* the rating field and the count field of a discriminator are as its first
\* block shows them, absent when no block holds the discriminator, and a
\* field whose marker the first block lacks is absent
RatingFieldsFrom(movie, datas, discriminator, rating, count) ==
    IF BlocksOf(movie, discriminator) = {}
    THEN datas[rating] = NoneV /\ datas[count] = NoneV
    ELSE LET b == movie.ratings[SetMin(BlocksOf(movie, discriminator))]
         IN  /\ datas[rating] = IF b.note.present THEN NoteShown(b.note.text) ELSE NoneV
             /\ datas[count] = IF b.review.present THEN CountShown(b.review.text) ELSE NoneV

\* C21: each rating field comes from the first rating block, in document
\* order, whose text holds its discriminator, and is absent when there is no
\* such block; "2,4" is read as 2.4; and a rating field whose marker is
\* missing is absent while the title and the other rating fields are there.
C21_RatingsFromFirstBlock ==
    (pc = "extracted" /\ res_movie.main) =>
        /\ RatingFieldsFrom(res_movie, movie_datas, "Presse",
                            "press_rating", "number_of_press_rating")
        /\ RatingFieldsFrom(res_movie, movie_datas, "Spectateurs",
                            "spec_rating", "number_of_spec_rating")
        /\ movie_datas["title"] = StrV(res_movie.title.text)

\* C21 witness: two press blocks, 3,0 before 2,4, and no spectator block.
C21_Witness ==
    /\ pc = "extracted"
    /\ Len(res_movie.ratings) = 2
    /\ res_movie.ratings[1].note = Text(<<"3", ",", "0">>)
    /\ res_movie.ratings[2].note = Text(<<"2", ",", "4">>)
    /\ BlocksOf(res_movie, "Presse") = {1, 2}
    /\ movie_datas["press_rating"] = FloatV(30)
    /\ movie_datas["spec_rating"] = NoneV

\* C22: fetches and writes happen one at a time and in order: the detail
\* pages of a listing page are fetched in the order of its filtered list; a
\* detail page is fetched only when the records of all detail pages fetched
\* before it are written; a write follows the fetch of its detail page and
\* writes the table; and the walk moves to the next listing page only when
\* every link of the filtered list has been fetched and its record written.
C22_OneAtATimeInOrder ==
    [][/\ IsPrefix(links_fetched', urls_to_parse')
       /\ details' # details =>
             /\ details' = details + 1
             /\ writes_on_page = Len(links_fetched)
             /\ pages_fetched' = pages_fetched /\ fs' = fs
       /\ (writes_on_page' > writes_on_page \/ fs'.file # fs.file) =>
             /\ writes_on_page' = writes_on_page + 1
             /\ writes_on_page' = Len(links_fetched)
             /\ fs'.file = ToCsv(df')
             /\ pages_fetched' = pages_fetched /\ details' = details
       /\ pages_fetched' # pages_fetched =>
             /\ links_fetched = <<>> /\ writes_on_page = 0
             /\ details' = details /\ fs' = fs
       /\ (number' # number /\ number # 0) =>
             /\ links_fetched = urls_to_parse
             /\ writes_on_page = Len(urls_to_parse)]_vars

\* C22 witness: the second listing page has been fetched after both links of
\* the first one were fetched and their records written.
C22_Witness ==
    /\ pc = "get_movie"
    /\ Len(pages_fetched) = 2
    /\ details = 2
    /\ links_fetched = <<>>
    /\ Len(df.rows) = 2

\* C23 as claimed: a run without failure over P listing pages with D detail
\* fetches has made P + D pauses when it is done.
C23_PausesArePagesPlusDetails ==
    pc = "done" => pauses = Len(pages_fetched) + details

\* C23 as amended: a run without failure over P listing pages with D detail
\* fetches has made 2 * P + D pauses when it is done: one before each listing
\* fetch, one after each detail page, and one after the last link of each
\* listing page; while it runs it has made one pause for each listing page
\* asked for, each detail page done with and each listing page done with.
C23_PausesAreTwicePagesPlusDetails ==
    /\ pc = "done" =>
          /\ Len(pages_fetched) = config.number_of_pages
          /\ pauses = 2 * Len(pages_fetched) + details
    /\ pc \in {"get_page", "parse_page", "get_movie", "parse_movie", "exclude",
                "page_end_pause"} =>
          pauses = (number - config.from_page + 1) + (number - config.from_page)
                   + details - (IF pc \in {"parse_movie", "exclude"} THEN 1 ELSE 0)

\* C23 witness: a run over two listing pages with three detail fetches is
\* done and has made seven pauses.
C23_Witness ==
    /\ pc = "done"
    /\ Len(pages_fetched) = 2
    /\ details = 3
    /\ pauses = 7

\* the table, the exclusion list, the directory and the file, and the number
\* of detail fetches
StoreAndFetches == <<df, exclude_ids, fs, details, links_fetched>>

\* C24: when the list of links of listing page n is empty after parsing and
\* filtering, no detail page is fetched for it, the table, the exclusion list
\* and the file stay as they are, and the run goes on with listing page n+1,
\* or is done when n was the last page.
C24_EmptyPageIsSkipped ==
    [][/\ (pc = "parse_page" /\ urls_to_parse' = <<>> /\ pc' # "failed") =>
             /\ pc' = "page_end_pause"
             /\ UNCHANGED StoreAndFetches
       /\ (pc = "page_end_pause" /\ urls_to_parse = <<>>) =>
             /\ UNCHANGED StoreAndFetches
             /\ number' = number + 1
             /\ pc' = IF number = config.from_page + config.number_of_pages - 1
                      THEN "done" ELSE "page_pause"]_vars

\* C24 witness: the filter has left no link of the first of two listing pages,
\* and the run has gone on to the second.
C24_Witness ==
    /\ pc = "page_pause"
    /\ config.append_result
    /\ exclude_ids = {1}
    /\ pages_fetched = <<config.from_page>>
    /\ details = 0
    /\ number = config.from_page + 1

\* the duration marker is there and only blanks, or nothing, follow it
DurationIsBlank(movie) ==
    /\ movie.main
    /\ movie.spacer.kind = "text"
    /\ \A j \in 1..Len(movie.spacer.text) : movie.spacer.text[j] = " "

C26_FreshScraperStartsEmpty ==
    /\ class_df = [columns |-> movie_infos, rows |-> <<>>]
    /\ (pc = "ready" /\ ~config.append_result /\ ~bound) =>
          /\ df.columns = movie_infos
          /\ Len(df.columns) = 13
          /\ df.rows = <<>>

\* C26 witness: the second scraper of the process, without append mode, is
\* constructed after the first one has appended and written two records.
C26_Witness ==
    /\ instances = 2
    /\ pc = "ready"
    /\ ~config.append_result
    /\ ~bound
    /\ fs.file.kind = "csv" /\ Len(fs.file.rows) = 2
    /\ df.rows = <<>>

\* a is b with some of its elements left out
RECURSIVE IsSubsequence(_, _)
IsSubsequence(a, b) ==
    IF a = <<>> THEN TRUE
    ELSE IF b = <<>> THEN FALSE
    ELSE IF Head(a) = Head(b) THEN IsSubsequence(Tail(a), Tail(b))
    ELSE IsSubsequence(a, Tail(b))

\* the first of the rows that holds the id n
FirstRowWithId(rows, n) ==
    rows[SetMin({j \in 1..Len(rows) : HasId(rows[j]["id"]) /\ rows[j]["id"].n = n})]

\* the step appends a record whose id the table holds already
AppendsKnownId ==
    /\ Appends
    /\ HasId(movie_datas'["id"])
    /\ movie_datas'["id"].n \in IdsOf(df.rows)

\* C27: when a record is appended whose id the table holds already, the row
\* stored first for that id is still there with every value as it was, no row
\* is added, so the new row is the one left out, and the rows that were there
\* keep their order.
C27_FirstWriteWins ==
    [][AppendsKnownId =>
          /\ \E k \in 1..Len(df'.rows) :
                 df'.rows[k] = FirstRowWithId(df.rows, movie_datas'["id"].n)
          /\ IsSubsequence(df'.rows, df.rows)
          /\ df'.columns = df.columns
          /\ fs'.file = ToCsv(df')]_vars

\* C27 witness: the table held movie 1 with its press rating; the page of
\* the same movie without press note has been appended and left out.
C27_Witness ==
    /\ pc = "exclude"
    /\ res_movie = NoPressNote
    /\ movie_datas["press_rating"] = NoneV
    /\ Len(df.rows) = 1
    /\ df.rows[1]["id"].n = 1
    /\ df.rows[1]["press_rating"] # NoneV
    /\ ~IsNull(df.rows[1]["press_rating"])

\* the run is between two detail steps: none has begun, or the last one has
\* been completed by the append to exclude_ids
BetweenDetailSteps ==
    pc \in {"ready", "page_pause", "get_page", "parse_page", "get_movie",
            "page_end_pause", "done"}

\* C28: in append mode, between detail steps, every id held in the table is
\* in exclude_ids.
C28_StoredIdsAreExcluded ==
    (config.append_result /\ BetweenDetailSteps) => IdsOf(df.rows) \subseteq exclude_ids

\* the run is in the inner loop over the links of a listing page
InDetailLoop == pc \in {"get_movie", "parse_movie", "exclude"}

\* C29: the list of links of a listing page is filtered once, when the page is
\* parsed, and stays as it is while its detail pages are fetched; every link
\* of that list is fetched and its record written, two links with one id
\* included; and after that no two rows of the table hold the same id.
C29_FilterOncePerPage ==
    [][/\ InDetailLoop => urls_to_parse' = urls_to_parse
       /\ pc' = "page_end_pause" =>
             /\ links_fetched' = urls_to_parse'
             /\ writes_on_page' = Len(urls_to_parse')
             /\ writes_on_page' > 0 => UniqueIds(df'.rows)]_vars

\* C29 witness: in append mode with 12 excluded, a listing page with the link
\* of movie 1 twice has led to two detail fetches and to one row for movie 1.
C29_Witness ==
    /\ pc = "page_end_pause"
    /\ config.append_result
    /\ 12 \in exclude_ids
    /\ urls_to_parse = <<Link1, Link1>>
    /\ links_fetched = <<Link1, Link1>>
    /\ writes_on_page = 2
    /\ appended = {1}
    /\ Cardinality({j \in 1..Len(df.rows) :
                       HasId(df.rows[j]["id"]) /\ df.rows[j]["id"].n = 1}) = 1

\* C30: a run without append mode does not read the output file: as long as it
\* has written no record the file is as it was before the run, and from its
\* first write on the file is the table of the run, whose ids are the ids the
\* run wrote.
C30_NonAppendIgnoresPriorFile ==
    ~config.append_result =>
        IF bound
        THEN /\ fs.file = ToCsv(df)
             /\ IdsOf(df.rows) = appended
             /\ Len(df.rows) <= details
        ELSE fs.file = prior

\* C30 witness: without append mode, a file that held movie 1 before the run
\* holds the record of movie 12 alone after the first write.
C30_Witness ==
    /\ ~config.append_result
    /\ prior = ToCsv(OneRowFrame(MovieDatas(Movie1)))
    /\ bound
    /\ appended = {12}
    /\ fs.file = ToCsv(OneRowFrame(MovieDatas(Movie12)))

====
